---- MODULE Spec2Model ----
(***************************************************************************)
(* Model of quay-mcp-server: the Quay client (discovery fetch, endpoint    *)
(* catalog, URL builders, tool surface) and the MCP server built on it.    *)
(*                                                                         *)
(* Go strings are sequences of one-character strings, so that trimming,    *)
(* searching, replacing and escaping are computed as the code computes     *)
(* them.  Go maps are TLA+ functions; where the code ranges over a map and *)
(* the order shows in the result, the order is an explicit argument that   *)
(* the calling action chooses.                                             *)
(***************************************************************************)
EXTENDS Integers, Sequences, FiniteSets, TLC

VARIABLES
    registryURL,  \* QuayClient.registryURL
    oauthToken,   \* QuayClient.oauthToken ("" = none configured)
    model,        \* QuayClient.model (NoModel = nil)
    endpoints,    \* QuayClient.endpoints: resource URI -> EndpointInfo
    registry,     \* environment: the API description the remote registry serves
    fpc,          \* position inside FetchSwaggerSpec
    sent,         \* discovery requests issued so far, each with the reply it got
    fetchErr,     \* value returned by FetchSwaggerSpec ("" = nil, "pending" = not returned)
    panicked,     \* a nil dereference ended the process
    spc,          \* position inside QuayMCPServer.Start ("lib" = client used as a library)
    tools,        \* tools registered on the MCP server / returned by generateTools
    events,       \* what Start and the handler have done, in order
    call,         \* the last tool invocation and what the caller got back
    fn,           \* URL-builder harness: the function applied last
    input,        \* URL-builder harness: its arguments
    output,       \* URL-builder harness: its result
    threads       \* tool-handler invocations in flight, each with its local values

vars == <<registryURL, oauthToken, model, endpoints, registry, fpc, sent, fetchErr, panicked,
          spc, tools, events, call, fn, input, output, threads>>

clientVars == <<registryURL, oauthToken, model, endpoints, registry, fpc, sent, fetchErr, panicked>>
serverVars == <<spc, tools, events, call>>
urlVars    == <<fn, input, output>>

(***************************************************************************)
(* Go's strings package, on sequences of characters.                       *)
(***************************************************************************)
RECURSIVE TrimRight(_, _)
TrimRight(s, c) ==
    IF Len(s) > 0 /\ s[Len(s)] = c THEN TrimRight(SubSeq(s, 1, Len(s) - 1), c) ELSE s

RECURSIVE TrimLeft(_, _)
TrimLeft(s, c) ==
    IF Len(s) > 0 /\ s[1] = c THEN TrimLeft(SubSeq(s, 2, Len(s)), c) ELSE s

Trim(s, c) == TrimLeft(TrimRight(s, c), c)

HasPrefix(s, p) == Len(s) >= Len(p) /\ SubSeq(s, 1, Len(p)) = p

HasSuffix(s, p) == Len(s) >= Len(p) /\ SubSeq(s, Len(s) - Len(p) + 1, Len(s)) = p

TrimPrefix(s, p) == IF HasPrefix(s, p) THEN SubSeq(s, Len(p) + 1, Len(s)) ELSE s

TrimSuffix(s, p) == IF HasSuffix(s, p) THEN SubSeq(s, 1, Len(s) - Len(p)) ELSE s

Contains(s, c) == \E i \in 1..Len(s) : s[i] = c

\* strings.Index(s[start:], c) + start, 1-based; 0 stands for Go's -1.
Index(s, c, start) ==
    LET hits == {i \in start..Len(s) : s[i] = c}
    IN  IF hits = {} THEN 0 ELSE CHOOSE i \in hits : \A j \in hits : i <= j

\* strings.ReplaceAll for a non-empty old: leftmost, non-overlapping.
RECURSIVE ReplaceAll(_, _, _)
ReplaceAll(s, old, new) ==
    IF Len(s) < Len(old) THEN s
    ELSE IF SubSeq(s, 1, Len(old)) = old
         THEN new \o ReplaceAll(SubSeq(s, Len(old) + 1, Len(s)), old, new)
         ELSE <<s[1]>> \o ReplaceAll(SubSeq(s, 2, Len(s)), old, new)

RECURSIVE Join(_, _)
Join(parts, sep) ==
    IF Len(parts) = 0 THEN <<>>
    ELSE IF Len(parts) = 1 THEN parts[1]
    ELSE parts[1] \o sep \o Join(Tail(parts), sep)

\* fmt.Sprintf("{%s}", name)
Placeholder(name) == <<"{">> \o name \o <<"}">>

\* url.QueryEscape, on the characters the model uses: letters, digits, '-',
\* '_', '.', '~' stay; a space becomes '+'; every other byte becomes %XX.
EscapeChar(c) ==
    CASE c = "/" -> <<"%", "2", "F">>
      [] c = "{" -> <<"%", "7", "B">>
      [] c = "}" -> <<"%", "7", "D">>
      [] c = "?" -> <<"%", "3", "F">>
      [] c = "&" -> <<"%", "2", "6">>
      [] c = "=" -> <<"%", "3", "D">>
      [] c = ":" -> <<"%", "3", "A">>
      [] c = " " -> <<"+">>
      [] OTHER   -> <<c>>

RECURSIVE QueryEscape(_)
QueryEscape(s) == IF Len(s) = 0 THEN <<>> ELSE EscapeChar(s[1]) \o QueryEscape(Tail(s))

(***************************************************************************)
(* Values of the program.                                                  *)
(***************************************************************************)
NoModel == [nil |-> TRUE]
NoPaths == [nil |-> TRUE]
NoOp    == [nil |-> TRUE]

\* Go's nil for the model, its Paths and an operation of a path item: a
\* record whose nil field is TRUE; the values that exist carry nil = FALSE.
\* An argument value (interface{}): a Go string, or a value of another type.
StrVal(s) == [isString |-> TRUE, s |-> s]
NumVal    == [isString |-> FALSE, s |-> <<>>]

EmptyMap == [k \in {} |-> 0]

\* HasPathParameters
HasPathParameters(path) == Contains(path, "{") /\ Contains(path, "}")

\* extractPathParameterNames: scan for '{', then for the next '}'.
RECURSIVE ExtractNamesFrom(_, _)
ExtractNamesFrom(path, start) ==
    LET startIdx == Index(path, "{", start)
        endIdx   == Index(path, "}", startIdx)
    IN  IF startIdx = 0 \/ endIdx = 0 THEN <<>>
        ELSE <<SubSeq(path, startIdx + 1, endIdx - 1)>> \o ExtractNamesFrom(path, endIdx + 1)

extractPathParameterNames(path) == ExtractNamesFrom(path, 1)

\* All orders in which a range over a map with key set S may visit the keys.
Perms(S) == {q \in [1..Cardinality(S) -> S] : \A i, j \in 1..Cardinality(S) : q[i] = q[j] => i = j}

ResourceURIKey == <<"r", "e", "s", "o", "u", "r", "c", "e", "_", "u", "r", "i">>
Scheme == <<"q", "u", "a", "y", ":", "/", "/">>

\* A base URL that never looks at the description's base path.
BaseURL_IgnoresBasePath(regURL, mdl) == regURL

\* A base URL that appends the base path as it is declared.
BaseURL_KeepsLeadingSlash(regURL, mdl) ==
    IF ~mdl.nil /\ mdl.basePath # <<>>
    THEN TrimRight(regURL, "/") \o <<"/">> \o mdl.basePath
    ELSE regURL

\* The base URL both builders start from: the registry URL, then the
\* description's base path when a model is loaded and declares one.
BaseURL(regURL, mdl) ==
    IF ~mdl.nil /\ mdl.basePath # <<>>
    THEN TrimRight(regURL, "/") \o <<"/">> \o TrimLeft(mdl.basePath, "/")
    ELSE regURL

\* The loop of BuildAPIURLWithParams over pathParamNames: a name whose
\* argument exists and is a string replaces every "{name}".
RECURSIVE SubstituteNamed(_, _, _)
SubstituteNamed(path, names, pathParams) ==
    IF Len(names) = 0 THEN path
    ELSE LET name == names[1]
             next == IF name \in DOMAIN pathParams /\ pathParams[name].isString
                     THEN ReplaceAll(path, Placeholder(name), pathParams[name].s)
                     ELSE path
         IN  SubstituteNamed(next, Tail(names), pathParams)

\* A loop that emits a part for an empty value too.
RECURSIVE QueryParts_KeepsEmpty(_, _)
QueryParts_KeepsEmpty(queryParams, order) ==
    IF Len(order) = 0 THEN <<>>
    ELSE LET key   == order[1]
             value == queryParams[key]
             part  == IF value.isString
                      THEN <<key \o <<"=">> \o QueryEscape(value.s)>>
                      ELSE <<>>
         IN  part \o QueryParts_KeepsEmpty(queryParams, Tail(order))

\* The loop over queryParams, visited in `order`: one key=escaped(value) part
\* for every string value that is not empty.
RECURSIVE QueryParts(_, _)
QueryParts(queryParams, order) ==
    IF Len(order) = 0 THEN <<>>
    ELSE LET key   == order[1]
             value == queryParams[key]
             part  == IF value.isString /\ value.s # <<>>
                      THEN <<key \o <<"=">> \o QueryEscape(value.s)>>
                      ELSE <<>>
         IN  part \o QueryParts(queryParams, Tail(order))

PathParamsOf(endpoint, params) ==
    LET names == extractPathParameterNames(endpoint.Path)
        keys  == {k \in DOMAIN params :
                     k # ResourceURIKey /\ \E i \in 1..Len(names) : names[i] = k}
    IN  [k \in keys |-> params[k]]

\* A partition that forgets to skip the reserved key.
QueryParamsOf_KeepsResourceURI(endpoint, params) ==
    LET names == extractPathParameterNames(endpoint.Path)
        keys  == {k \in DOMAIN params : ~\E i \in 1..Len(names) : names[i] = k}
    IN  [k \in keys |-> params[k]]

QueryParamsOf(endpoint, params) ==
    LET names == extractPathParameterNames(endpoint.Path)
        keys  == {k \in DOMAIN params :
                     k # ResourceURIKey /\ ~\E i \in 1..Len(names) : names[i] = k}
    IN  [k \in keys |-> params[k]]

\* BuildAPIURLWithParams; `order` is the order in which the range over
\* queryParams visits its keys.
BuildAPIURLWithParams(regURL, mdl, endpoint, params, order) ==
    LET baseURL     == BaseURL(regURL, mdl)
        names       == extractPathParameterNames(endpoint.Path)
        pathParams  == PathParamsOf(endpoint, params)
        queryParams == QueryParamsOf(endpoint, params)
        finalPath   == IF HasPathParameters(endpoint.Path)
                       THEN SubstituteNamed(endpoint.Path, names, pathParams)
                       ELSE endpoint.Path
        fullURL     == TrimRight(baseURL, "/") \o finalPath
        queryParts  == QueryParts(queryParams, order)
    IN  IF Len(queryParts) > 0
        THEN fullURL \o <<"?">> \o Join(queryParts, <<"&">>)
        ELSE fullURL

\* Every URL BuildAPIURLWithParams can return for these arguments.
BuildAPIURLWithParamsResults(regURL, mdl, endpoint, params) ==
    {BuildAPIURLWithParams(regURL, mdl, endpoint, params, order) :
        order \in Perms(DOMAIN QueryParamsOf(endpoint, params))}

(***************************************************************************)
(* The resource-identifier form: extractPathParameters and BuildAPIURL.    *)
(***************************************************************************)
\* The capture group each "{name}" of the template is replaced by.
GROUP == "([^/]+)"

\* regexp \{([^}]+)\} FindAllStringSubmatch: at a '{', the match runs to the
\* next '}' when at least one character lies between; otherwise the scan
\* moves on by one character.  Each element is <<match[0], match[1]>>.
RECURSIVE FindAllParams(_, _)
FindAllParams(path, start) ==
    LET open  == Index(path, "{", start)
        close == Index(path, "}", open + 1)
    IN  IF open = 0 \/ close = 0 THEN <<>>
        ELSE IF close = open + 1 THEN FindAllParams(path, open + 1)
        ELSE <<<<SubSeq(path, open, close), SubSeq(path, open + 1, close - 1)>>>>
             \o FindAllParams(path, close + 1)

\* regexPattern after the loop that replaces every match[0] by the group.
RECURSIVE ToRegexPattern(_, _)
ToRegexPattern(pattern, matches) ==
    IF Len(matches) = 0 THEN pattern
    ELSE ToRegexPattern(ReplaceAll(pattern, matches[1][1], <<GROUP>>), Tail(matches))

\* A run that does not stop at '/'.
RunLength_AnyCharacter(inp, i) == IF i > Len(inp) THEN 0 ELSE Len(inp) - i + 1

\* Length of the run of characters other than '/' that starts at inp[i].
RECURSIVE RunLength(_, _)
RunLength(inp, i) ==
    IF i > Len(inp) \/ inp[i] = "/" THEN 0 ELSE 1 + RunLength(inp, i + 1)

NoMatch == [ok |-> FALSE, caps |-> <<>>]

\* regexp "^" + regexPattern + "$" FindStringSubmatch: literals match
\* themselves, a group takes the longest run that lets the rest match
\* (greedy, leftmost-first).  caps are the submatches 1..n.
RECURSIVE MatchFrom(_, _, _, _)
RECURSIVE TryGroup(_, _, _, _, _)
MatchFrom(pat, pi, inp, ii) ==
    IF pi > Len(pat)
    THEN IF ii > Len(inp) THEN [ok |-> TRUE, caps |-> <<>>] ELSE NoMatch
    ELSE IF pat[pi] = GROUP
         THEN TryGroup(pat, pi, inp, ii, RunLength(inp, ii))
         ELSE IF ii <= Len(inp) /\ inp[ii] = pat[pi]
              THEN MatchFrom(pat, pi + 1, inp, ii + 1)
              ELSE NoMatch

TryGroup(pat, pi, inp, ii, n) ==
    IF n < 1 THEN NoMatch
    ELSE LET rest == MatchFrom(pat, pi + 1, inp, ii + n)
         IN  IF rest.ok
             THEN [ok |-> TRUE, caps |-> <<SubSeq(inp, ii, ii + n - 1)>> \o rest.caps]
             ELSE TryGroup(pat, pi, inp, ii, n - 1)

\* The assignment loop: params[paramNames[i]] = matches[i+1], later names
\* overwriting earlier equal ones.
RECURSIVE AssignParams(_, _, _)
AssignParams(params, matches, caps) ==
    IF Len(matches) = 0 \/ Len(caps) = 0 THEN params
    ELSE LET name == matches[1][2]
             next == [k \in DOMAIN params \cup {name} |->
                         IF k = name THEN caps[1] ELSE params[k]]
         IN  AssignParams(next, Tail(matches), Tail(caps))

\* An extraction that matches the key without restoring its leading '/'.
extractPathParameters_NoLeadingSlash(resourceURI, pathTemplate) ==
    LET resourcePath == TrimPrefix(resourceURI, Scheme)
        matches      == FindAllParams(pathTemplate, 1)
        regexPattern == ToRegexPattern(pathTemplate, matches)
        found        == MatchFrom(regexPattern, 1, resourcePath, 1)
    IN  IF Len(matches) > 0 /\ found.ok /\ Len(found.caps) > 0
        THEN AssignParams(EmptyMap, matches, found.caps)
        ELSE EmptyMap

extractPathParameters(resourceURI, pathTemplate) ==
    LET trimmed      == TrimPrefix(resourceURI, Scheme)
        resourcePath == IF HasPrefix(trimmed, <<"/">>) THEN trimmed ELSE <<"/">> \o trimmed
        matches      == FindAllParams(pathTemplate, 1)
        regexPattern == ToRegexPattern(pathTemplate, matches)
        found        == MatchFrom(regexPattern, 1, resourcePath, 1)
    IN  IF Len(matches) > 0 /\ found.ok /\ Len(found.caps) > 0
        THEN AssignParams(EmptyMap, matches, found.caps)
        ELSE EmptyMap

\* A loop that leaves after its first iteration.
SubstituteExtracted_FirstOnly(url, pathParams, order) ==
    IF Len(order) = 0 THEN url
    ELSE ReplaceAll(url, Placeholder(order[1]), pathParams[order[1]])

\* The loop of BuildAPIURL over pathParams, visited in `order`.
RECURSIVE SubstituteExtracted(_, _, _)
SubstituteExtracted(url, pathParams, order) ==
    IF Len(order) = 0 THEN url
    ELSE SubstituteExtracted(
             ReplaceAll(url, Placeholder(order[1]), pathParams[order[1]]),
             pathParams, Tail(order))

\* BuildAPIURL; `order` is the order in which the range over the extracted
\* parameters visits its keys.
BuildAPIURL(regURL, mdl, endpoint, resourceURI, order) ==
    LET baseURL    == BaseURL(regURL, mdl)
        fullURL    == TrimRight(baseURL, "/") \o endpoint.Path
        pathParams == extractPathParameters(resourceURI, endpoint.Path)
    IN  SubstituteExtracted(fullURL, pathParams, order)

BuildAPIURLResults(regURL, mdl, endpoint, resourceURI) ==
    {BuildAPIURL(regURL, mdl, endpoint, resourceURI, order) :
        order \in Perms(DOMAIN extractPathParameters(resourceURI, endpoint.Path))}

(***************************************************************************)
(* The client: construction, discovery fetch, catalog, tool surface.       *)
(***************************************************************************)
\* NewQuayClient: the registry URL loses its trailing '/'; no model, an
\* empty catalog.
\* OAuth tokens the process is started with: none, or one.
NoToken == <<>>
Tokens  == {NoToken, <<"k">>}

NewQuayClient(rawURL, token) ==
    [registryURL |-> TrimRight(rawURL, "/"), oauthToken |-> token,
     model |-> NoModel, endpoints |-> EmptyMap]

DiscoveryPath == <<"/", "a", "p", "i", "/", "v", "1", "/", "d", "i", "s", "c", "o", "v", "e", "r", "y">>
FallbackPath  == <<"/", "d", "i", "s", "c", "o", "v", "e", "r", "y">>

PrimaryDiscoveryURL(regURL)  == TrimSuffix(regURL, <<"/">>) \o DiscoveryPath
FallbackDiscoveryURL(regURL) == TrimSuffix(regURL, <<"/">>) \o FallbackPath

StatusOK       == 200
StatusNotFound == 404

\* FetchSwaggerSpec after the first response: whether the fallback is tried.
\* A fallback tried on every status but 200.
TriesFallback_AnyFailure(status) == status # StatusOK

TriesFallback(status) == status = StatusNotFound

\* libopenapi.NewDocument + BuildV2Model on a body that is a Swagger 2.0
\* description: the model carries the description's host, base path and
\* paths (Paths is nil when the description has no "paths" key).
BuildV2Model(doc) ==
    [nil |-> FALSE, host |-> doc.host, basePath |-> doc.basePath, paths |-> doc.paths]

\* A fetch that parses whatever body it reads, whatever the status.
FetchFinish_NoStatusCheck(status, body, doc, mdl) ==
    IF body = "unreadable" THEN [err |-> "read", model |-> mdl]
    ELSE IF body = "malformed" THEN [err |-> "parse", model |-> mdl]
    ELSE [err |-> "", model |-> BuildV2Model(doc)]

\* FetchSwaggerSpec from the status check on, for the response that is
\* current (the primary one, or the fallback one after a primary 404).
\* body is "description" (the registry's API description), "malformed"
\* (not a parseable Swagger 2.0 description) or "unreadable" (the read of the
\* body fails).  Returns the error ("" = nil) and the client's model after.
FetchFinish(status, body, doc, mdl) ==
    IF status # StatusOK THEN [err |-> "status", model |-> mdl]
    ELSE IF body = "unreadable" THEN [err |-> "read", model |-> mdl]
    ELSE IF body = "malformed" THEN [err |-> "parse", model |-> mdl]
    ELSE [err |-> "", model |-> BuildV2Model(doc)]

\* allowedTags of DiscoverEndpoints
DiscoverAllowedTags == {"manifest", "organization", "repository", "robot", "tag", "team"}

\* allowedTags of generateTools
ToolAllowedTags == {"manifest", "organization", "repository", "robot", "tag"}

\* A filter that looks at the first tag only.
hasAllowedTag_FirstTagOnly(tags, allowedTags) == Len(tags) > 0 /\ tags[1] \in allowedTags

hasAllowedTag(tags, allowedTags) == \E i \in 1..Len(tags) : tags[i] \in allowedTags

ResourceURI(path) == Scheme \o TrimPrefix(path, <<"/">>)

\* The loop of DiscoverEndpoints over the path items, in document order.
RECURSIVE DiscoverLoop(_, _)
DiscoverLoop(items, eps) ==
    IF Len(items) = 0 THEN eps
    ELSE LET item == items[1]
             uri  == ResourceURI(item.path)
             info == [Method      |-> "GET",
                      Path        |-> item.path,
                      OperationID |-> item.get.OperationId,
                      Tags        |-> item.get.Tags,
                      Parameters  |-> item.get.Parameters]
             next == IF item.get.nil \/ ~hasAllowedTag(item.get.Tags, DiscoverAllowedTags)
                     THEN eps
                     ELSE [u \in DOMAIN eps \cup {uri} |-> IF u = uri THEN info ELSE eps[u]]
         IN  DiscoverLoop(Tail(items), next)

\* DiscoverEndpoints: nothing without a model; a nil dereference when the
\* model has no Paths; otherwise the catalog after the loop.
DiscoverEndpoints(mdl, eps) ==
    IF mdl.nil THEN [panic |-> FALSE, endpoints |-> eps]
    ELSE IF mdl.paths.nil THEN [panic |-> TRUE, endpoints |-> eps]
    ELSE [panic |-> FALSE, endpoints |-> DiscoverLoop(mdl.paths.items, eps)]

QuayPrefix == <<"q", "u", "a", "y", "_">>
RootName   == <<"r", "o", "o", "t">>

\* A derivation without the fallback name.
PathIdentifier_NoRoot(path) ==
    LET a == ReplaceAll(Trim(path, "/"), <<"/">>, <<"_">>)
        b == ReplaceAll(a, <<"{">>, <<>>)
    IN  ReplaceAll(b, <<"}">>, <<>>)

\* The identifier derived from a path: '/' trimmed at both ends, '/' -> '_',
\* braces removed, "root" when nothing is left.
PathIdentifier(path) ==
    LET a == ReplaceAll(Trim(path, "/"), <<"/">>, <<"_">>)
        b == ReplaceAll(a, <<"{">>, <<>>)
        c == ReplaceAll(b, <<"}">>, <<>>)
    IN  IF c = <<>> THEN RootName ELSE c

ToolName(path, operation) ==
    QuayPrefix \o (IF operation.OperationId # <<>> THEN operation.OperationId
                   ELSE PathIdentifier(path))

RECURSIVE QueryParamNames(_)
QueryParamNames(parameters) ==
    IF Len(parameters) = 0 THEN <<>>
    ELSE (IF parameters[1].In = "query" THEN <<parameters[1].Name>> ELSE <<>>)
         \o QueryParamNames(Tail(parameters))

\* A tool that marks a query parameter required when the description does.
NewTool_HonoursRequiredFlag(path, operation) ==
    LET pathParams == IF HasPathParameters(path) THEN extractPathParameterNames(path) ELSE <<>>
        queryNames == QueryParamNames(operation.Parameters)
        flagged    == QueryParamNames(SelectSeq(operation.Parameters, LAMBDA p : p.Required))
    IN  [Name       |-> ToolName(path, operation),
         Path       |-> path,
         Required   |-> pathParams \o flagged,
         Properties |-> {pathParams[i] : i \in 1..Len(pathParams)}
                        \cup {queryNames[i] : i \in 1..Len(queryNames)}
                        \cup {ResourceURIKey}]

\* One tool: its name, the names appended to the schema's required list, and
\* the schema's properties.
NewTool(path, operation) ==
    LET pathParams == IF HasPathParameters(path) THEN extractPathParameterNames(path) ELSE <<>>
        queryNames == QueryParamNames(operation.Parameters)
    IN  [Name       |-> ToolName(path, operation),
         Path       |-> path,
         Required   |-> pathParams,
         Properties |-> {pathParams[i] : i \in 1..Len(pathParams)}
                        \cup {queryNames[i] : i \in 1..Len(queryNames)}
                        \cup {ResourceURIKey}]

RECURSIVE ToolsLoop(_)
ToolsLoop(items) ==
    IF Len(items) = 0 THEN <<>>
    ELSE LET item == items[1]
         IN  (IF item.get.nil \/ ~hasAllowedTag(item.get.Tags, ToolAllowedTags)
              THEN <<>>
              ELSE <<NewTool(item.path, item.get)>>)
             \o ToolsLoop(Tail(items))

\* generateTools: nil without a model; a nil dereference when the model has
\* no Paths; otherwise one tool per GET operation with an allowed tag.
generateTools(mdl) ==
    IF mdl.nil THEN [panic |-> FALSE, tools |-> <<>>]
    ELSE IF mdl.paths.nil THEN [panic |-> TRUE, tools |-> <<>>]
    ELSE [panic |-> FALSE, tools |-> ToolsLoop(mdl.paths.items)]

(***************************************************************************)
(* The remote registry and the API descriptions it may serve.              *)
(***************************************************************************)
\* Most path items a served description has.
MaxPaths == 2

RawURLs == {<<"h">>, <<"h", "/">>}

Statuses == {200, 404, 500}

\* What a response carries: with status 200 the registry's description, a
\* body that is no Swagger 2.0 description, or a body whose read fails;
\* with another status an error page.
Bodies(status) ==
    IF status = 200 THEN {"description", "malformed", "unreadable"} ELSE {"page"}

Pending        == [kind |-> "pending"]
Failed         == [kind |-> "failed"]
Reply(code, b) == [kind |-> "status", code |-> code, body |-> b]

DocPaths == {<<"/", "a">>, <<"/", "a", "/", "{", "n", "}">>, <<"/", "b", "/">>}

TagLists == {<<>>, <<"repository">>, <<"billing">>, <<"Repository">>,
             <<"billing", "tag">>, <<"team">>}

Operations(tagLists, opIds, paramLists) ==
    [nil : {FALSE}, Tags : tagLists, OperationId : opIds, Parameters : paramLists]

PathItems(paths, gets, posts) == [path : paths, get : gets, post : posts]

\* Ordered path maps: at most n items, no path twice.
PathMaps(items, n) ==
    UNION {{q \in [1..k -> items] : \A i, j \in 1..k : q[i].path = q[j].path => i = j} :
              k \in 0..n}

Descriptions(basePaths, pathMaps) ==
    [host : {<<"h">>}, basePath : basePaths,
     paths : {[nil |-> FALSE, items |-> m] : m \in pathMaps} \cup {NoPaths}]

OtherOp ==
    [nil |-> FALSE, Tags |-> <<"repository">>, OperationId |-> <<"w">>, Parameters |-> <<>>]

\* The descriptions the library-level specification draws from: every tag
\* list, with and without a GET, with and without another method.
ClientDocs ==
    Descriptions({<<"/", "v">>}, PathMaps(
        PathItems(DocPaths,
                  Operations(TagLists, {<<"o">>}, {<<>>}) \cup {NoOp},
                  {NoOp, OtherOp}),
        MaxPaths))

NoCall == [made |-> FALSE]

\* No handler invocation has started.
NoThreads == <<>>

(***************************************************************************)
(* FetchSwaggerSpec, step by step.                                         *)
(***************************************************************************)
Running == ~panicked

\* http.Get(discoveryURL) on the primary URL.
FetchSendPrimary ==
    /\ Running /\ fpc = "idle" /\ spc \in {"lib", "FetchSwaggerSpec"}
    /\ sent' = Append(sent, [url |-> PrimaryDiscoveryURL(registryURL), reply |-> Pending])
    /\ fpc' = "primary_sent"
    /\ UNCHANGED <<registryURL, oauthToken, model, endpoints, registry, fetchErr, panicked>>
    /\ UNCHANGED serverVars /\ UNCHANGED urlVars /\ UNCHANGED threads

\* The pending http.Get returns an error: FetchSwaggerSpec returns it.
FetchTransportError ==
    /\ Running /\ fpc \in {"primary_sent", "fallback_sent"}
    /\ sent' = [sent EXCEPT ![Len(sent)].reply = Failed]
    /\ fpc' = "returned"
    /\ fetchErr' = "transport"
    /\ UNCHANGED <<registryURL, oauthToken, model, endpoints, registry, panicked>>
    /\ UNCHANGED serverVars /\ UNCHANGED urlVars /\ UNCHANGED threads

\* The primary response arrives: on 404 the fallback request goes out, on
\* anything else FetchSwaggerSpec finishes with this response.
FetchPrimaryResponse ==
    /\ Running /\ fpc = "primary_sent"
    /\ \E status \in Statuses : \E body \in Bodies(status) :
          LET got == [sent EXCEPT ![Len(sent)].reply = Reply(status, body)]
              fin == FetchFinish(status, body, registry, model)
          IN  IF TriesFallback(status)
              THEN /\ sent' = Append(got, [url   |-> FallbackDiscoveryURL(registryURL),
                                           reply |-> Pending])
                   /\ fpc' = "fallback_sent"
                   /\ UNCHANGED <<model, fetchErr>>
              ELSE /\ sent' = got
                   /\ fpc' = "returned"
                   /\ model' = fin.model
                   /\ fetchErr' = fin.err
    /\ UNCHANGED <<registryURL, oauthToken, endpoints, registry, panicked>>
    /\ UNCHANGED serverVars /\ UNCHANGED urlVars /\ UNCHANGED threads

\* The fallback response arrives: FetchSwaggerSpec finishes with it.
FetchFallbackResponse ==
    /\ Running /\ fpc = "fallback_sent"
    /\ \E status \in Statuses : \E body \in Bodies(status) :
          LET fin == FetchFinish(status, body, registry, model)
          IN  /\ sent' = [sent EXCEPT ![Len(sent)].reply = Reply(status, body)]
              /\ fpc' = "returned"
              /\ model' = fin.model
              /\ fetchErr' = fin.err
    /\ UNCHANGED <<registryURL, oauthToken, endpoints, registry, panicked>>
    /\ UNCHANGED serverVars /\ UNCHANGED urlVars /\ UNCHANGED threads

Fetch == FetchSendPrimary \/ FetchTransportError \/ FetchPrimaryResponse \/ FetchFallbackResponse

(***************************************************************************)
(* The client used as a library: its methods called in any order, the      *)
(* fetch at most once.                                                     *)
(***************************************************************************)
\* events records each kind of completed call once, in the order of first
\* completion; a call made while the model is nil is recorded as such.
Note(e) == IF \E i \in 1..Len(events) : events[i] = e THEN events ELSE Append(events, e)

Idle == Running /\ spc = "lib" /\ fpc \in {"idle", "returned"}

CallDiscoverEndpoints ==
    /\ Idle
    /\ LET r == DiscoverEndpoints(model, endpoints)
       IN  /\ panicked' = r.panic
           /\ endpoints' = r.endpoints
           /\ events' = IF r.panic THEN events
                       ELSE Note(IF model.nil THEN "DiscoverEndpoints(nil)" ELSE "DiscoverEndpoints")
    /\ UNCHANGED <<registryURL, oauthToken, model, registry, fpc, sent, fetchErr>>
    /\ UNCHANGED <<spc, tools, call>> /\ UNCHANGED urlVars /\ UNCHANGED threads

CallGenerateTools ==
    /\ Idle
    /\ LET r == generateTools(model)
       IN  /\ panicked' = r.panic
           /\ tools' = r.tools
           /\ events' = IF r.panic THEN events
                       ELSE Note(IF model.nil THEN "generateTools(nil)" ELSE "generateTools")
    /\ UNCHANGED <<registryURL, oauthToken, model, endpoints, registry, fpc, sent, fetchErr>>
    /\ UNCHANGED <<spc, call>> /\ UNCHANGED urlVars /\ UNCHANGED threads

InitCommon ==
    /\ registryURL \in {NewQuayClient(raw, NoToken).registryURL : raw \in RawURLs}
    /\ model = NoModel
    /\ endpoints = EmptyMap
    /\ fpc = "idle"
    /\ sent = <<>>
    /\ fetchErr = "pending"
    /\ panicked = FALSE
    /\ tools = <<>>
    /\ events = <<>>
    /\ call = NoCall /\ threads = NoThreads
    /\ fn = "none"
    /\ input = <<>>
    /\ output = <<>>

InitClient == InitCommon /\ oauthToken = NoToken /\ spc = "lib" /\ registry \in ClientDocs

NextClient == Fetch \/ CallDiscoverEndpoints \/ CallGenerateTools

SpecClient == InitClient /\ [][NextClient]_vars

(***************************************************************************)
(* The tool surface of a client that has loaded a description whose        *)
(* operations declare parameters.                                          *)
(***************************************************************************)
Param(name, in, required) == [Name |-> name, In |-> in, Required |-> required]

\* Parameter lists of an operation: query parameters flagged required or
\* not, a path parameter, both kinds together.
ParamLists ==
    {<<>>,
     <<Param(<<"q">>, "query", FALSE)>>,
     <<Param(<<"q">>, "query", TRUE)>>,
     <<Param(<<"n">>, "path", TRUE)>>,
     <<Param(<<"n">>, "path", TRUE), Param(<<"q">>, "query", TRUE)>>,
     <<Param(<<"q">>, "query", FALSE), Param(<<"p">>, "query", TRUE)>>}

ToolDocs ==
    Descriptions({<<"/", "v">>}, PathMaps(
        PathItems(DocPaths \cup {<<"/">>, <<"a">>},
                  Operations({<<"repository">>}, {<<>>, <<"o">>}, ParamLists)
                      \cup {NoOp},
                  {NoOp}),
        MaxPaths))

\* A client whose fetch got the description on the first request.
InitTools ==
    /\ registry \in ToolDocs
    /\ registryURL \in {NewQuayClient(raw, NoToken).registryURL : raw \in RawURLs}
    /\ oauthToken = NoToken
    /\ model = BuildV2Model(registry)
    /\ endpoints = EmptyMap
    /\ fpc = "returned"
    /\ sent = <<[url   |-> PrimaryDiscoveryURL(registryURL),
                 reply |-> Reply(200, "description")]>>
    /\ fetchErr = ""
    /\ panicked = FALSE
    /\ spc = "lib" /\ tools = <<>> /\ events = <<>> /\ call = NoCall /\ threads = NoThreads
    /\ fn = "none" /\ input = <<>> /\ output = <<>>

NextTools == CallDiscoverEndpoints \/ CallGenerateTools

SpecTools == InitTools /\ [][NextTools]_vars

(***************************************************************************)
(* The MCP server: Start, then the tool handler.                           *)
(***************************************************************************)
\* The descriptions the server specification draws from: GET operations
\* with and without an allowed tag, with and without an operation id.
ServerDocs ==
    Descriptions({<<"/", "v">>}, PathMaps(
        PathItems(DocPaths,
                  Operations({<<"repository">>, <<"billing">>}, {<<>>, <<"o">>}, {<<>>})
                      \cup {NoOp},
                  {NoOp}),
        MaxPaths))

\* Start's statements in program order: what runs after each.
\* A Start that registers the tools before it builds the catalog.
StartAfter_ToolsFirst(step) ==
    CASE step = "FetchSwaggerSpec"  -> "generateTools"
      [] step = "generateTools"     -> "DiscoverEndpoints"
      [] step = "DiscoverEndpoints" -> "ServeStdio"
      [] step = "ServeStdio"        -> "serving"

StartAfter(step) ==
    CASE step = "FetchSwaggerSpec"  -> "DiscoverEndpoints"
      [] step = "DiscoverEndpoints" -> "generateTools"
      [] step = "generateTools"     -> "ServeStdio"
      [] step = "ServeStdio"        -> "serving"

\* FetchSwaggerSpec returned to Start: an error makes Start return it.
StartFetchReturned ==
    /\ Running /\ spc = "FetchSwaggerSpec" /\ fpc = "returned"
    /\ spc' = IF fetchErr # "" THEN "returned error" ELSE StartAfter("FetchSwaggerSpec")
    /\ events' = Append(events, "FetchSwaggerSpec")
    /\ UNCHANGED clientVars /\ UNCHANGED <<tools, call>> /\ UNCHANGED urlVars /\ UNCHANGED threads

StartDiscoverEndpoints ==
    /\ Running /\ spc = "DiscoverEndpoints"
    /\ LET r == DiscoverEndpoints(model, endpoints)
       IN  /\ panicked' = r.panic
           /\ endpoints' = r.endpoints
           /\ spc' = IF r.panic THEN spc ELSE StartAfter("DiscoverEndpoints")
           /\ events' = IF r.panic THEN events ELSE Append(events, "DiscoverEndpoints")
    /\ UNCHANGED <<registryURL, oauthToken, model, registry, fpc, sent, fetchErr>>
    /\ UNCHANGED <<tools, call>> /\ UNCHANGED urlVars /\ UNCHANGED threads

\* generateTools and the AddTool loop over its result.
StartGenerateTools ==
    /\ Running /\ spc = "generateTools"
    /\ LET r == generateTools(model)
       IN  /\ panicked' = r.panic
           /\ tools' = r.tools
           /\ spc' = IF r.panic THEN spc ELSE StartAfter("generateTools")
           /\ events' = IF r.panic THEN events ELSE Append(events, "generateTools")
    /\ UNCHANGED <<registryURL, oauthToken, model, endpoints, registry, fpc, sent, fetchErr>>
    /\ UNCHANGED call /\ UNCHANGED urlVars /\ UNCHANGED threads

StartServeStdio ==
    /\ Running /\ spc = "ServeStdio"
    /\ spc' = StartAfter("ServeStdio")
    /\ events' = Append(events, "ServeStdio")
    /\ UNCHANGED clientVars /\ UNCHANGED <<tools, call>> /\ UNCHANGED urlVars /\ UNCHANGED threads

\* The handler's two lookups.  A range over the catalog map stops at the
\* first entry that fits, in an order the runtime picks: every fitting entry
\* can be the one found.
\* pathIdentifier of the tool handler, computed for one endpoint.
pathIdentifier(path) ==
    LET a == ReplaceAll(Trim(path, "/"), <<"/">>, <<"_">>)
        b == ReplaceAll(a, <<"{">>, <<>>)
        c == ReplaceAll(b, <<"}">>, <<>>)
    IN  IF c = <<>> THEN RootName ELSE c

FoundEndpoints(eps, identifier) ==
    LET byOperationID == {u \in DOMAIN eps : eps[u].OperationID = identifier}
        byPath        == {u \in DOMAIN eps : pathIdentifier(eps[u].Path) = identifier}
    IN  IF byOperationID # {} THEN byOperationID ELSE byPath

\* Header values of the outbound request.
AcceptJSON   == <<"a", "p", "p", "l", "i", "c", "a", "t", "i", "o", "n", "/", "j", "s", "o", "n">>
UserAgent    == <<"q", "u", "a", "y", "-", "m", "c", "p", "-", "s", "e", "r", "v", "e", "r", "/", "1", ".", "0", ".", "0">>
BearerPrefix == <<"B", "e", "a", "r", "e", "r", " ">>

\* A request that carries an Authorization header whatever the token.
NewRequest_AlwaysAuthorization(method, url, token) ==
    [method  |-> method,
     url     |-> url,
     headers |-> [h \in {"Accept", "User-Agent", "Authorization"} |->
                     CASE h = "Accept"        -> AcceptJSON
                       [] h = "User-Agent"    -> UserAgent
                       [] h = "Authorization" -> BearerPrefix \o token]]

\* http.NewRequest and the headers MakeAPICallWithParams sets on it.
NewRequest(method, url, token) ==
    [method  |-> method,
     url     |-> url,
     headers |-> [h \in {"Accept", "User-Agent"}
                        \cup (IF token # <<>> THEN {"Authorization"} ELSE {}) |->
                     CASE h = "Accept"        -> AcceptJSON
                       [] h = "User-Agent"    -> UserAgent
                       [] h = "Authorization" -> BearerPrefix \o token]]

\* A client that sends the request again after a failure.
RequestsSent_RetriesOnFailure(req, reply) ==
    IF reply = Failed \/ reply.code >= 400 THEN <<req, req>> ELSE <<req>>

\* client.Do: the requests that go out for one call, whatever the reply.
RequestsSent(req, reply) == <<req>>

\* MakeAPICallWithParams after the request was sent: reply is the
\* transport's failure or the response.  A status error carries the status
\* code and the body; a successful call returns the body.
APICallResult(reply) ==
    IF reply = Failed THEN [err |-> "failed to make API request"]
    ELSE IF reply.code >= 400
         THEN [err |-> "API request failed with status", code |-> reply.code,
               body |-> reply.body]
         ELSE [err |-> "", data |-> reply.body]

\* A handler that returns the client's error as its own Go error.
HandlerResult_ReturnsGoError(r) ==
    IF r.err # ""
    THEN [nil |-> TRUE, isError |-> FALSE, kind |-> "none", goErr |-> r.err]
    ELSE [nil |-> FALSE, isError |-> FALSE, kind |-> "response", goErr |-> "nil", text |-> r]

\* What the handler returns for a call that reached MakeAPICallWithParams:
\* a text result either way, "API call failed: " + the error or the body.
HandlerResult(r) ==
    IF r.err # ""
    THEN [nil |-> FALSE, isError |-> FALSE, kind |-> "API call failed", goErr |-> "nil",
          text |-> r]
    ELSE [nil |-> FALSE, isError |-> FALSE, kind |-> "response", goErr |-> "nil", text |-> r]

\* mcp.NewToolResultError with the handler's message.
ToolResultError(message, toolName) ==
    [nil |-> FALSE, isError |-> TRUE, kind |-> message, goErr |-> "nil", text |-> toolName]

\* What the masking branch prints in place of the Authorization value.
Redacted == <<"B", "e", "a", "r", "e", "r", " ", "[", "R", "E", "D", "A", "C", "T", "E", "D", "]">>

\* A header loop that prints every value as it is.
HeaderLogValue_Unmasked(name, value) == value

\* The value the header loop prints for one header.
HeaderLogValue(name, value) ==
    IF name = "Authorization" /\ HasPrefix(value, BearerPrefix) THEN Redacted ELSE value

\* One log line that prints values: the line's text and the strings that
\* Printf puts into it.
LogLine(line, values) == [line |-> line, values |-> values]

\* %v of an argument map: its keys and its string values (a value of
\* another type prints as a number).
ArgTexts(arguments) ==
    DOMAIN arguments \cup {arguments[k].s : k \in {a \in DOMAIN arguments : arguments[a].isString}}

\* The handler's two lines before the API call.
HandlerLog(endpoint, arguments) ==
    {LogLine("Making API call to endpoint", {endpoint.Path}),
     LogLine("With arguments", ArgTexts(arguments))}

\* The lines MakeAPICallWithParams prints before client.Do.
RequestLog(req, params, endpoint) ==
    {LogLine("URL", {req.url}),
     LogLine("Parameters", ArgTexts(params)),
     LogLine("Endpoint", {endpoint.Path, endpoint.OperationID})}
    \cup {LogLine(h, {HeaderLogValue(h, req.headers[h])}) : h \in DOMAIN req.headers}

\* The lines it prints after client.Do: the transport's error, which quotes
\* the URL, or the status and the body the registry sent.
ResponseLog(req, reply) ==
    IF reply = Failed THEN {LogLine("Error", {req.url})}
    ELSE {LogLine("Response Body", {})}

ArgN == <<"n">>
ArgQ == <<"q">>

\* Argument maps of the tool calls: the path parameter absent, a string or
\* of another type; a query parameter absent or a string.
ServerArgs ==
    {[k \in ks |-> IF k = ArgQ THEN StrVal(<<"y">>) ELSE v] :
        ks \in SUBSET {ArgN, ArgQ}, v \in {StrVal(<<"x">>), NumVal, StrVal(<<"k">>)}}

ToolNames ==
    {tools[i].Name : i \in 1..Len(tools)} \cup {<<"x">>, QuayPrefix \o <<"z">>}

\* What the registry can answer to an API request: nothing (a transport
\* failure), a success, a 3xx answer the client does not follow, an error.
APIReplies == {Failed, Reply(200, "json"), Reply(304, "page"), Reply(404, "page")}

\* One invocation of the tool handler, from the request to the result.
ToolCall ==
    /\ Running /\ spc = "serving" /\ ~call.made
    /\ \E toolName \in ToolNames, arguments \in ServerArgs :
          LET identifier == TrimPrefix(toolName, QuayPrefix)
              found      == FoundEndpoints(endpoints, identifier)
          IN  IF ~HasPrefix(toolName, QuayPrefix)
              THEN call' = [made |-> TRUE, name |-> toolName, arguments |-> arguments,
                            resolved |-> FALSE, path |-> <<>>, requests |-> <<>>,
                            log |-> {},
                            result |-> ToolResultError("Invalid tool name", toolName)]
              ELSE IF found = {}
              THEN call' = [made |-> TRUE, name |-> toolName, arguments |-> arguments,
                            resolved |-> FALSE, path |-> <<>>, requests |-> <<>>,
                            log |-> {},
                            result |-> ToolResultError("Endpoint not found", toolName)]
              ELSE \E u \in found, reply \in APIReplies :
                   \E url \in BuildAPIURLWithParamsResults(registryURL, model,
                                                           endpoints[u], arguments) :
                      LET req == NewRequest(endpoints[u].Method, url, oauthToken)
                          api == APICallResult(reply)
                      IN  call' = [made |-> TRUE, name |-> toolName,
                                   arguments |-> arguments,
                                   resolved |-> TRUE, path |-> endpoints[u].Path,
                                   requests |-> RequestsSent(req, reply),
                                   log |-> HandlerLog(endpoints[u], arguments)
                                               \cup RequestLog(req, arguments, endpoints[u])
                                               \cup ResponseLog(req, reply),
                                   reply |-> reply, api |-> api,
                                   result |-> HandlerResult(api)]
    /\ events' = Note("ToolCall")
    /\ UNCHANGED clientVars /\ UNCHANGED <<spc, tools>> /\ UNCHANGED urlVars /\ UNCHANGED threads

\* The handler has returned its result; the server waits for the next
\* request.
ToolReturn ==
    /\ Running /\ spc = "serving" /\ call.made
    /\ call' = NoCall
    /\ UNCHANGED clientVars /\ UNCHANGED <<spc, tools, events>> /\ UNCHANGED urlVars /\ UNCHANGED threads

Init ==
    /\ InitCommon
    /\ oauthToken \in {NewQuayClient(registryURL, token).oauthToken : token \in Tokens}
    /\ spc = "FetchSwaggerSpec"
    /\ registry \in ServerDocs

Next ==
    \/ Fetch
    \/ StartFetchReturned
    \/ StartDiscoverEndpoints
    \/ StartGenerateTools
    \/ StartServeStdio
    \/ ToolCall
    \/ ToolReturn

Spec == Init /\ [][Next]_vars

(***************************************************************************)
(* The URL builders applied to endpoints and arguments of the caller's     *)
(* choice, on a fresh client or on one that has loaded a description.      *)
(***************************************************************************)
\* Most segments a path template has.
MaxSegs == 2

ArgR == <<"r">>

Segments == {<<"a">>, Placeholder(ArgN), Placeholder(ArgR)}

\* Segment sequences in which no placeholder occurs twice.
SegmentSeqs(n) ==
    UNION {{q \in [1..k -> Segments] :
               \A i, j \in 1..k : (q[i] = q[j] /\ q[i] # <<"a">>) => i = j} : k \in 0..n}

RenderPath(segs, trailing) ==
    IF Len(segs) = 0 THEN <<"/">>
    ELSE <<"/">> \o Join(segs, <<"/">>) \o (IF trailing THEN <<"/">> ELSE <<>>)

\* Path templates as an API description writes them: '/'-separated, each
\* segment a literal or one placeholder, with or without a trailing '/'.
Templates == {RenderPath(q, t) : q \in SegmentSeqs(MaxSegs), t \in BOOLEAN}

\* An EndpointInfo for a path, as DiscoverEndpoints stores it.
EndpointFor(path) ==
    [Method |-> "GET", Path |-> path, OperationID |-> <<>>, Tags |-> <<"repository">>,
     Parameters |-> <<>>]

ArgValues == {StrVal(<<"x">>), StrVal(<<>>), StrVal(<<"x", "/", "y">>), NumVal}

\* Argument maps: any of n, r, q with any value, with or without resource_uri.
URLArgs ==
    UNION {{[k \in ks \cup ru |-> IF k = ResourceURIKey THEN StrVal(<<"x">>) ELSE f[k]] :
               f \in [ks -> ArgValues]} :
              ks \in SUBSET {ArgN, ArgR, ArgQ}, ru \in {{}, {ResourceURIKey}}}

IsSubstring(s, sub) == \E i \in 1..(Len(s) - Len(sub) + 1) : SubSeq(s, i, i + Len(sub) - 1) = sub

\* The placeholder names of a template.
PlaceholderSet(path) == {name \in {ArgN, ArgR} : IsSubstring(path, Placeholder(name))}

\* A template with each placeholder replaced by its value.
Fill(path, a) ==
    LET withN == IF ArgN \in DOMAIN a THEN ReplaceAll(path, Placeholder(ArgN), a[ArgN]) ELSE path
    IN  IF ArgR \in DOMAIN a THEN ReplaceAll(withN, Placeholder(ArgR), a[ArgR]) ELSE withN

\* The resource key of one instantiation of a template.
Instantiate(path, a) == Scheme \o TrimPrefix(Fill(path, a), <<"/">>)

\* Values a caller puts in a resource key: one segment, two characters, an
\* empty value, a value with a '/' in it.
KeyValues == {<<"x">>, <<"x", "y">>, <<>>, <<"x", "/", "y">>}

ResourceKeys ==
    UNION {{Instantiate(t, a) : a \in [PlaceholderSet(t) -> KeyValues]} : t \in Templates}

URLDocs == Descriptions({<<>>, <<"/", "v">>, <<"v", "/">>, <<"/", "a">>}, {<<>>})

ApplyBuildAPIURLWithParams ==
    /\ Running /\ spc = "lib" /\ fpc \in {"idle", "returned"} /\ fn = "none"
    /\ \E path \in Templates, params \in URLArgs :
       \E url \in BuildAPIURLWithParamsResults(registryURL, model, EndpointFor(path), params) :
          /\ fn' = "BuildAPIURLWithParams"
          /\ input' = [endpoint |-> EndpointFor(path), params |-> params]
          /\ output' = url
    /\ UNCHANGED clientVars /\ UNCHANGED serverVars /\ UNCHANGED threads

ApplyExtractPathParameters ==
    /\ Running /\ spc = "lib" /\ fpc \in {"idle", "returned"} /\ fn = "none"
    /\ \E path \in Templates, uri \in ResourceKeys :
          /\ fn' = "extractPathParameters"
          /\ input' = [resourceURI |-> uri, pathTemplate |-> path]
          /\ output' = extractPathParameters(uri, path)
    /\ UNCHANGED clientVars /\ UNCHANGED serverVars /\ UNCHANGED threads

ApplyBuildAPIURL ==
    /\ Running /\ spc = "lib" /\ fpc \in {"idle", "returned"} /\ fn = "none"
    /\ \E path \in Templates, uri \in ResourceKeys :
       \E url \in BuildAPIURLResults(registryURL, model, EndpointFor(path), uri) :
          /\ fn' = "BuildAPIURL"
          /\ input' = [endpoint |-> EndpointFor(path), resourceURI |-> uri]
          /\ output' = url
    /\ UNCHANGED clientVars /\ UNCHANGED serverVars /\ UNCHANGED threads

\* A fresh client, or a client whose fetch got the description on the first
\* request.
InitURL ==
    /\ InitCommon /\ oauthToken = NoToken /\ spc = "lib" /\ registry \in URLDocs
    \/ /\ registry \in URLDocs
       /\ oauthToken = NoToken
       /\ registryURL \in {NewQuayClient(raw, NoToken).registryURL : raw \in RawURLs}
       /\ model = BuildV2Model(registry)
       /\ endpoints = EmptyMap
       /\ fpc = "returned"
       /\ sent = <<[url   |-> PrimaryDiscoveryURL(registryURL),
                    reply |-> Reply(200, "description")]>>
       /\ fetchErr = ""
       /\ panicked = FALSE
       /\ spc = "lib" /\ tools = <<>> /\ events = <<>> /\ call = NoCall /\ threads = NoThreads
       /\ fn = "none" /\ input = <<>> /\ output = <<>>

NextURL == ApplyBuildAPIURLWithParams \/ ApplyExtractPathParameters \/ ApplyBuildAPIURL

SpecURL == InitURL /\ [][NextURL]_vars

(***************************************************************************)
(* The tool handler under concurrent requests: the MCP server runs one     *)
(* handler invocation per request, and the invocations interleave at the   *)
(* statements that read the client and at the network call.                *)
(***************************************************************************)
\* Most handler invocations in flight at once.
MaxCalls == 2

\* The descriptions the serving specification draws from.
ServingDocs ==
    {d \in Descriptions({<<"/", "v">>}, PathMaps(
               PathItems({<<"/", "a">>, <<"/", "a", "/", "{", "n", "}">>},
                         Operations({<<"repository">>}, {<<>>}, {<<>>}),
                         {NoOp}),
               MaxPaths)) : ~d.paths.nil}

\* Argument maps of the concurrent requests.
ServingArgs == {a \in ServerArgs : ArgN \in DOMAIN a /\ a[ArgN] = StrVal(<<"x">>)}

ServingReplies == {Reply(200, "json"), Reply(404, "page")}

\* The locals of an invocation that has read its request: toolName and
\* arguments are set, endpoint is nil, nothing was built or sent.
NewInvocation(toolName, arguments) ==
    [pc |-> "lookup", name |-> toolName, arguments |-> arguments, uri |-> <<>>,
     url |-> <<>>, request |-> <<>>, reply |-> Pending, result |-> [nil |-> TRUE]]

\* An assignment that writes one variable all the invocations share.
LocalAssign_SharedVariable(th, t, name, value) ==
    [s \in DOMAIN th |-> [th[s] EXCEPT ![name] = value]]

\* An assignment to a variable declared inside the handler closure or inside
\* MakeAPICallWithParams: it belongs to the invocation that runs it.
LocalAssign(th, t, name, value) ==
    [th EXCEPT ![t] = [th[t] EXCEPT ![name] = value]]

At(t, pc) == t \in DOMAIN threads /\ threads[t].pc = pc

\* A request arrives: the handler starts and reads the tool name and the
\* arguments.
HandlerBegin ==
    /\ Running /\ spc = "serving" /\ Len(threads) < MaxCalls
    /\ \E toolName \in ToolNames, arguments \in ServingArgs :
          threads' = Append(threads, NewInvocation(toolName, arguments))
    /\ UNCHANGED clientVars /\ UNCHANGED serverVars /\ UNCHANGED urlVars

\* The prefix check and the two lookups over GetEndpoints().
HandlerLookup ==
    /\ Running
    /\ \E t \in DOMAIN threads :
          /\ At(t, "lookup")
          /\ LET toolName   == threads[t].name
                 identifier == TrimPrefix(toolName, QuayPrefix)
                 found      == FoundEndpoints(endpoints, identifier)
             IN  IF ~HasPrefix(toolName, QuayPrefix)
                 THEN threads' = [LocalAssign(threads, t, "result",
                                              ToolResultError("Invalid tool name", toolName))
                                     EXCEPT ![t].pc = "returned"]
                 ELSE IF found = {}
                 THEN threads' = [LocalAssign(threads, t, "result",
                                              ToolResultError("Endpoint not found", toolName))
                                     EXCEPT ![t].pc = "returned"]
                 ELSE \E u \in found :
                         threads' = [LocalAssign(threads, t, "uri", u)
                                        EXCEPT ![t].pc = "call"]
    /\ UNCHANGED clientVars /\ UNCHANGED serverVars /\ UNCHANGED urlVars

\* MakeAPICallWithParams, its first statement: apiURL is built from the
\* client's fields, the endpoint and the arguments.
HandlerBuildURL ==
    /\ Running
    /\ \E t \in DOMAIN threads :
          /\ At(t, "call")
          /\ \E url \in BuildAPIURLWithParamsResults(registryURL, model,
                                                     endpoints[threads[t].uri],
                                                     threads[t].arguments) :
                threads' = [LocalAssign(threads, t, "url", url) EXCEPT ![t].pc = "send"]
    /\ UNCHANGED clientVars /\ UNCHANGED serverVars /\ UNCHANGED urlVars

\* The request is made from apiURL and sent on a client of its own; the
\* invocation waits for the registry.
HandlerSend ==
    /\ Running
    /\ \E t \in DOMAIN threads :
          /\ At(t, "send")
          /\ LET req == NewRequest(endpoints[threads[t].uri].Method, threads[t].url,
                                   oauthToken)
             IN  threads' = [LocalAssign(threads, t, "request", req) EXCEPT ![t].pc = "wait"]
    /\ UNCHANGED clientVars /\ UNCHANGED serverVars /\ UNCHANGED urlVars

\* The registry's answer arrives and the handler returns its result.
HandlerFinish ==
    /\ Running
    /\ \E t \in DOMAIN threads, reply \in ServingReplies :
          /\ At(t, "wait")
          /\ threads' = [LocalAssign(LocalAssign(threads, t, "reply", reply), t, "result",
                                     HandlerResult(APICallResult(reply)))
                            EXCEPT ![t].pc = "returned"]
    /\ UNCHANGED clientVars /\ UNCHANGED serverVars /\ UNCHANGED urlVars

\* A server whose Start has reached ServeStdio: the description was fetched
\* on the first request, the catalog and the tools were built from it.
InitServing ==
    /\ registry \in ServingDocs
    /\ registryURL \in {NewQuayClient(raw, NoToken).registryURL : raw \in RawURLs}
    /\ oauthToken \in {NewQuayClient(registryURL, token).oauthToken : token \in Tokens}
    /\ model = BuildV2Model(registry)
    /\ endpoints = DiscoverEndpoints(model, EmptyMap).endpoints
    /\ fpc = "returned"
    /\ sent = <<[url   |-> PrimaryDiscoveryURL(registryURL),
                 reply |-> Reply(200, "description")]>>
    /\ fetchErr = ""
    /\ panicked = FALSE
    /\ spc = "serving"
    /\ tools = generateTools(model).tools
    /\ events = <<"FetchSwaggerSpec", "DiscoverEndpoints", "generateTools", "ServeStdio">>
    /\ call = NoCall /\ threads = NoThreads
    /\ fn = "none" /\ input = <<>> /\ output = <<>>

NextServing ==
    HandlerBegin \/ HandlerLookup \/ HandlerBuildURL \/ HandlerSend \/ HandlerFinish

SpecServing == InitServing /\ [][NextServing]_vars

(***************************************************************************)
(* The resource-based server and the client it runs on: every GET path is  *)
(* a resource or a resource template, read through one handler.            *)
(***************************************************************************)
\* DiscoverEndpoints of that client: one entry per path with a GET, whatever
\* its tags.
RECURSIVE LegacyDiscoverLoop(_, _)
LegacyDiscoverLoop(items, eps) ==
    IF Len(items) = 0 THEN eps
    ELSE LET item == items[1]
             uri  == Scheme \o TrimPrefix(item.path, <<"/">>)
             info == [Method      |-> "GET",
                      Path        |-> item.path,
                      Summary     |-> item.get.Summary,
                      OperationID |-> item.get.OperationId,
                      Tags        |-> item.get.Tags,
                      Parameters  |-> item.get.Parameters]
             next == IF item.get.nil THEN eps
                     ELSE [u \in DOMAIN eps \cup {uri} |-> IF u = uri THEN info ELSE eps[u]]
         IN  LegacyDiscoverLoop(Tail(items), next)

\* json.Unmarshal of the discovery body into the client's SwaggerSpec.
UnmarshalSpec(doc) ==
    [nil |-> FALSE, host |-> doc.host, basePath |-> doc.basePath, paths |-> doc.paths]

LegacyDiscoverEndpoints(spec, eps) ==
    IF spec.nil THEN eps ELSE LegacyDiscoverLoop(spec.paths.items, eps)

GetPrefix == <<"G", "E", "T", " ">>

\* A name that is the summary or the default, never the description.
ResourceName_SkipsDescription(path, operation) ==
    IF operation.Summary # <<>> THEN operation.Summary ELSE GetPrefix \o path

\* The entry's name: the summary, else the description, else "GET <path>".
ResourceName(path, operation) ==
    IF operation.Summary # <<>> THEN operation.Summary
    ELSE IF operation.Description # <<>> THEN operation.Description
    ELSE GetPrefix \o path

\* The entry's description, as the parts the format strings print: the
\* path, then the description, the tags and the operation id when present.
ResourceDescription(path, operation) ==
    [get         |-> path,
     description |-> operation.Description,
     tags        |-> operation.Tags,
     operationID |-> operation.OperationId]

\* The branch that decides between a template and a plain resource.
IsTemplatePath(path) == HasPathParameters(path)

NewResource(path, operation) ==
    [URI         |-> Scheme \o TrimPrefix(path, <<"/">>),
     Name        |-> ResourceName(path, operation),
     Description |-> ResourceDescription(path, operation),
     MIMEType    |-> "application/json"]

\* The loop of generateResourcesAndTemplates over the paths, in the order
\* the range visits them.
RECURSIVE ResourcesLoop(_, _)
ResourcesLoop(items, acc) ==
    IF Len(items) = 0 THEN acc
    ELSE LET item  == items[1]
             entry == NewResource(item.path, item.get)
             next  == IF item.get.nil THEN acc
                      ELSE IF IsTemplatePath(item.path)
                      THEN [acc EXCEPT !.templates = Append(@, entry)]
                      ELSE [acc EXCEPT !.resources = Append(@, entry)]
         IN  ResourcesLoop(Tail(items), next)

generateResourcesAndTemplates(spec) ==
    IF spec.nil THEN [resources |-> <<>>, templates |-> <<>>]
    ELSE ResourcesLoop(spec.paths.items, [resources |-> <<>>, templates |-> <<>>])

\* The descriptions the resource server draws from: GET operations with and
\* without a summary and a description, paths with and without a GET.
ResourceOperations ==
    [nil : {FALSE}, Summary : {<<>>, <<"s">>}, Description : {<<>>, <<"d">>},
     Tags : {<<"billing">>}, OperationId : {<<>>}, Parameters : {<<>>}]

ResourceDocs ==
    {d \in Descriptions({<<"/", "v">>}, PathMaps(
               PathItems(DocPaths, ResourceOperations \cup {NoOp},
                         {NoOp, CHOOSE o \in ResourceOperations : o.Summary = <<"s">>}),
               MaxPaths)) : ~d.paths.nil}

\* json.Unmarshal of the response accepts it.
IsJSON(body) == body = "json"

\* What the resource handler returns: an error without contents when the
\* URI is no key of the catalog; otherwise one text content, which is the
\* error information, the response, or the response wrapped when it is not
\* JSON.
ResourceContents(uri, endpoint, r) ==
    [nil |-> FALSE, goErr |-> "nil", URI |-> uri, MIMEType |-> "application/json",
     Text |-> IF r.err # ""
              THEN [kind |-> "error", uri |-> uri, error |-> r, method |-> endpoint.Method,
                    path |-> endpoint.Path]
              ELSE IF IsJSON(r.data) THEN [kind |-> "response", data |-> r.data]
              ELSE [kind |-> "wrapped", uri |-> uri, response |-> r.data]]

\* URIs a client reads: the keys of the catalog, instantiations of its
\* templates with a value of one segment and with a value that has a '/',
\* and a URI of no endpoint.
ReadURIs ==
    DOMAIN endpoints
    \cup UNION {{Instantiate(endpoints[u].Path, a) :
                    a \in [PlaceholderSet(endpoints[u].Path) ->
                              {<<"x">>, <<"x", "/", "y">>}]} : u \in DOMAIN endpoints}
    \cup {Scheme \o <<"z">>}

\* Start after the fetch: DiscoverEndpoints.
ResourceStartDiscoverEndpoints ==
    /\ Running /\ spc = "resources: DiscoverEndpoints"
    /\ endpoints' = LegacyDiscoverEndpoints(model, endpoints)
    /\ spc' = "resources: generateResourcesAndTemplates"
    /\ events' = Append(events, "DiscoverEndpoints")
    /\ UNCHANGED <<registryURL, oauthToken, model, registry, fpc, sent, fetchErr, panicked>>
    /\ UNCHANGED <<tools, call>> /\ UNCHANGED urlVars /\ UNCHANGED threads

\* generateResourcesAndTemplates, the AddResource and AddResourceTemplate
\* loops, ServeStdio.
ResourceStartGenerate ==
    /\ Running /\ spc = "resources: generateResourcesAndTemplates"
    /\ tools' = generateResourcesAndTemplates(model)
    /\ spc' = "resources: serving"
    /\ events' = Append(events, "generateResourcesAndTemplates")
    /\ UNCHANGED clientVars /\ UNCHANGED call /\ UNCHANGED urlVars /\ UNCHANGED threads

\* One invocation of the resource handler.
ReadResource ==
    /\ Running /\ spc = "resources: serving" /\ ~call.made
    /\ \E uri \in ReadURIs :
          IF uri \notin DOMAIN endpoints
          THEN call' = [made |-> TRUE, uri |-> uri, resolved |-> FALSE, path |-> <<>>,
                        requests |-> <<>>,
                        result |-> [nil |-> TRUE, goErr |-> "endpoint not found for URI",
                                    URI |-> uri]]
          ELSE \E reply \in APIReplies :
               \E url \in BuildAPIURLResults(registryURL, model, endpoints[uri], uri) :
                  LET req == NewRequest(endpoints[uri].Method, url, oauthToken)
                      api == APICallResult(reply)
                  IN  call' = [made |-> TRUE, uri |-> uri, resolved |-> TRUE,
                               path |-> endpoints[uri].Path,
                               requests |-> RequestsSent(req, reply),
                               reply |-> reply, api |-> api,
                               result |-> ResourceContents(uri, endpoints[uri], api)]
    /\ events' = Note("ReadResource")
    /\ UNCHANGED clientVars /\ UNCHANGED <<spc, tools>> /\ UNCHANGED urlVars
    /\ UNCHANGED threads

\* The resource server's Start after a fetch that got the description on the
\* first request.
InitResources ==
    /\ registry \in ResourceDocs
    /\ registryURL \in {NewQuayClient(raw, NoToken).registryURL : raw \in RawURLs}
    /\ oauthToken \in {NewQuayClient(registryURL, token).oauthToken : token \in Tokens}
    /\ model = UnmarshalSpec(registry)
    /\ endpoints = EmptyMap
    /\ fpc = "returned"
    /\ sent = <<[url   |-> PrimaryDiscoveryURL(registryURL),
                 reply |-> Reply(200, "description")]>>
    /\ fetchErr = ""
    /\ panicked = FALSE
    /\ spc = "resources: DiscoverEndpoints"
    /\ tools = <<>> /\ events = <<"FetchSwaggerSpec">>
    /\ call = NoCall /\ threads = NoThreads
    /\ fn = "none" /\ input = <<>> /\ output = <<>>

NextResources == ResourceStartDiscoverEndpoints \/ ResourceStartGenerate \/ ReadResource

SpecResources == InitResources /\ [][NextResources]_vars

(***************************************************************************)
(* Claims about discovery and the catalog (SpecClient).                    *)
(***************************************************************************)
Noted(e) == \E i \in 1..Len(events) : events[i] = e

CatalogPaths == {endpoints[u].Path : u \in DOMAIN endpoints}

\* A path item of the loaded description has a GET operation one of whose
\* tags is, character for character, a tag DiscoverEndpoints allows.
HasAllowedGet(item) ==
    /\ ~item.get.nil
    /\ \E i \in 1..Len(item.get.Tags) : item.get.Tags[i] \in DiscoverAllowedTags

LoadedItems == IF model.nil \/ model.paths.nil THEN {}
               ELSE {model.paths.items[i] : i \in 1..Len(model.paths.items)}

\* C1: after DiscoverEndpoints ran on a loaded description, a path is in
\* the catalog exactly when it has a GET operation with an allowed tag, and
\* every catalog entry has Method GET.
C1_CatalogIsAllowedGets ==
    Noted("DiscoverEndpoints") =>
        /\ \A item \in LoadedItems : (item.path \in CatalogPaths) <=> HasAllowedGet(item)
        /\ \A u \in DOMAIN endpoints :
              /\ endpoints[u].Method = "GET"
              /\ \E item \in LoadedItems : item.path = endpoints[u].Path

\* A description with an allowed GET, a GET without an allowed tag and a
\* path with only another method was discovered: one catalog entry.
C1_Witness ==
    /\ Noted("DiscoverEndpoints")
    /\ Cardinality(DOMAIN endpoints) = 1
    /\ \E a, b \in LoadedItems :
          /\ HasAllowedGet(a) /\ ~a.post.nil
          /\ ~b.get.nil /\ ~HasAllowedGet(b)

IsStatus(reply, code) == reply.kind = "status" /\ reply.code = code

\* C2: the first discovery request goes to {registryURL}/api/v1/discovery,
\* a second one goes to {registryURL}/discovery exactly when the first
\* response has status 404, there is never a third, and every other failure
\* (another non-200 status, a transport failure, an unusable body, a non-200
\* fallback answer) ends the fetch with an error.
C2_DiscoveryRequests ==
    /\ Len(sent) <= 2
    /\ Len(sent) >= 1 => sent[1].url = registryURL \o DiscoveryPath
    /\ Len(sent) = 2 => sent[2].url = registryURL \o FallbackPath
    /\ Len(sent) = 2 <=> (Len(sent) >= 1 /\ IsStatus(sent[1].reply, 404))
    /\ fpc = "returned" =>
          LET last == sent[Len(sent)].reply
          IN  /\ last # Pending
              /\ (last = Failed \/ ~IsStatus(last, 200) \/ last.body # "description")
                    => fetchErr \notin {"", "pending"}

\* The fallback was tried after a 404 and answered 500: the fetch ended
\* with an error after exactly two requests.
C2_Witness ==
    /\ fpc = "returned" /\ Len(sent) = 2
    /\ IsStatus(sent[1].reply, 404) /\ IsStatus(sent[2].reply, 500)
    /\ fetchErr = "status"

\* C3: FetchSwaggerSpec succeeds exactly when the last response has status
\* 200 and a body that is an API description; the model then carries the
\* description's host, base path and paths, and a DiscoverEndpoints after it
\* yields a non-empty catalog when the description has a GET operation with
\* an allowed tag.
C3_FetchSucceedsOnValid200 ==
    fpc = "returned" =>
        LET last == sent[Len(sent)].reply
        IN  /\ fetchErr = "" <=> (IsStatus(last, 200) /\ last.body = "description")
            /\ fetchErr = "" =>
                  /\ ~model.nil
                  /\ model.host = registry.host
                  /\ model.basePath = registry.basePath
                  /\ model.paths = registry.paths
            /\ (fetchErr = "" /\ Noted("DiscoverEndpoints")
                  /\ \E item \in LoadedItems : HasAllowedGet(item))
                  => DOMAIN endpoints # {}

\* 404 on the primary URL, 200 with a valid body on the fallback URL, and a
\* non-empty catalog after DiscoverEndpoints.
C3_Witness ==
    /\ fpc = "returned" /\ fetchErr = "" /\ Len(sent) = 2
    /\ IsStatus(sent[1].reply, 404) /\ IsStatus(sent[2].reply, 200)
    /\ Noted("DiscoverEndpoints") /\ DOMAIN endpoints # {}

\* C4 (as claimed): while no non-empty model is available - no fetch, a
\* failed fetch, or a loaded description with no paths - nothing crashes,
\* the catalog is empty and there are no tools.
C4_NoModelNoCatalogNoCrash ==
    (model.nil \/ model.paths.nil \/ model.paths.items = <<>>) =>
        /\ ~panicked
        /\ DOMAIN endpoints = {}
        /\ tools = <<>>

(***************************************************************************)
(* Claims about startup and the tool handler (Spec).                       *)
(***************************************************************************)
StartSequence ==
    <<"FetchSwaggerSpec", "DiscoverEndpoints", "generateTools", "ServeStdio", "ToolCall">>

\* C5: Start runs the discovery fetch, the catalog construction and the tool
\* registration in that order, once each, before it serves; a tool call is
\* handled only after all of them; and when the fetch fails Start returns
\* the error with no catalog, no tool and no serving.
C5_StartOrder ==
    /\ Len(events) <= Len(StartSequence)
    /\ events = SubSeq(StartSequence, 1, Len(events))
    /\ call.made => Len(events) = Len(StartSequence)
    /\ spc = "serving" => (fpc = "returned" /\ fetchErr = "")
    /\ (fpc = "returned" /\ fetchErr # "") =>
          /\ spc \in {"FetchSwaggerSpec", "returned error"}
          /\ DOMAIN endpoints = {}
          /\ tools = <<>>
          /\ ~call.made
          /\ Len(events) <= 1

\* The server is serving and its handler has resolved a call against the
\* catalog that discovery built.
C5_Witness ==
    /\ spc = "serving" /\ call.made /\ call.resolved
    /\ Len(tools) > 0 /\ DOMAIN endpoints # {}

\* A placeholder of the resolved endpoint's template that no argument of
\* the call names.
MissingPlaceholders(c) ==
    LET names == extractPathParameterNames(c.path)
    IN  {names[i] : i \in 1..Len(names)} \ DOMAIN c.arguments

\* C8 (as claimed): a call that leaves a placeholder of the endpoint's
\* template without an argument is reported as an unresolved-parameter
\* error, and the caller gets no result of a request whose URL still holds
\* the placeholder.
C8_UnresolvedParameterReported ==
    (call.made /\ call.resolved /\ MissingPlaceholders(call) # {}) =>
        /\ call.result.kind = "unresolved parameter"
        /\ call.requests = <<>>

(***************************************************************************)
(* Claims about the URL builders (SpecURL).                                *)
(***************************************************************************)
Restrict(f, S) == [k \in DOMAIN f \cap S |-> f[k]]

\* The argument keys that name a placeholder of the template.
PathKeys(path, params) == {k \in DOMAIN params : IsSubstring(path, Placeholder(k))}

Braces == {"{", "}"}

HasBrace(s) == \E i \in 1..Len(s) : s[i] \in Braces

\* C6: BuildAPIURLWithParams treats an argument whose key names a
\* placeholder of the template as a path argument and every other argument
\* except resource_uri as a query argument: the URL is the URL built from
\* the path arguments alone, which has no query string, followed by the
\* query string built from the query arguments alone, which leave the path
\* as it was; resource_uri changes nothing.
C6_ArgumentsPartitioned ==
    fn = "BuildAPIURLWithParams" =>
        LET ep        == input.endpoint
            params    == input.params
            pathKeys  == PathKeys(ep.Path, params)
            queryKeys == DOMAIN params \ (pathKeys \cup {ResourceURIKey})
            R(p)      == BuildAPIURLWithParamsResults(registryURL, model, ep, p)
            bare      == CHOOSE u \in R(EmptyMap) : TRUE
            pathOnly  == CHOOSE u \in R(Restrict(params, pathKeys)) : TRUE
        IN  /\ R(EmptyMap) = {bare}
            /\ R(Restrict(params, pathKeys)) = {pathOnly}
            /\ ~Contains(pathOnly, "?")
            /\ R(params) = R(Restrict(params, DOMAIN params \ {ResourceURIKey}))
            /\ \E u \in R(Restrict(params, queryKeys)) :
                  /\ HasPrefix(u, bare)
                  /\ output = pathOnly \o SubSeq(u, Len(bare) + 1, Len(u))

\* A call with a path argument, a query argument and resource_uri, whose
\* URL has the path argument's value in the path and a query string.
C6_Witness ==
    /\ fn = "BuildAPIURLWithParams"
    /\ input.endpoint.Path = <<"/", "a", "/", "{", "n", "}">>
    /\ DOMAIN input.params = {ArgN, ArgQ, ResourceURIKey}
    /\ input.params[ArgN] = StrVal(<<"x">>)
    /\ input.params[ArgQ] = StrVal(<<"x", "/", "y">>)
    /\ HasSuffix(output, <<"/", "a", "/", "x", "?", "q", "=", "x", "%", "2", "F", "y">>)

\* C7 (as claimed): when the arguments name every placeholder of the
\* template, the URL BuildAPIURLWithParams returns holds neither '{' nor
\* '}'.
C7_NoBraceWhenAllSupplied ==
    (/\ fn = "BuildAPIURLWithParams"
     /\ PlaceholderSet(input.endpoint.Path) \subseteq DOMAIN input.params) =>
        ~HasBrace(output)

\* Values of a placeholder in an instantiated key: not empty, no '/'.
SegmentValues == {v \in KeyValues : Len(v) > 0 /\ ~Contains(v, "/")}

\* C9: for a resource key that is the scheme followed by the template with
\* each placeholder replaced by a non-empty value without '/',
\* extractPathParameters returns exactly the map from each placeholder name
\* to its value.
C9_ExtractsInstantiation ==
    fn = "extractPathParameters" =>
        \A a \in [PlaceholderSet(input.pathTemplate) -> SegmentValues] :
            input.resourceURI = Instantiate(input.pathTemplate, a) => output = a

\* A key instantiating a template of two placeholders, and the two values
\* extracted from it.
C9_Witness ==
    /\ fn = "extractPathParameters"
    /\ input.pathTemplate = <<"/", "{", "n", "}", "/", "{", "r", "}">>
    /\ input.resourceURI = Scheme \o <<"x", "/", "x", "y">>
    /\ DOMAIN output = {ArgN, ArgR}
    /\ output[ArgN] = <<"x">> /\ output[ArgR] = <<"x", "y">>

\* The concrete path a resource key carries.
ConcretePath(resourceURI) == <<"/">> \o TrimPrefix(resourceURI, Scheme)

RECURSIVE SplitSegments(_)
SplitSegments(s) ==
    LET cut == Index(s, "/", 1)
    IN  IF cut = 0 THEN <<s>>
        ELSE <<SubSeq(s, 1, cut - 1)>> \o SplitSegments(SubSeq(s, cut + 1, Len(s)))

\* The path a resource key stands for: what follows the scheme, with a
\* leading '/' when it has none.
KeyPath(resourceURI) ==
    LET rest == TrimPrefix(resourceURI, Scheme)
    IN  IF HasPrefix(rest, <<"/">>) THEN rest ELSE <<"/">> \o rest

IsPlaceholderSegment(seg) == HasPrefix(seg, <<"{">>) /\ HasSuffix(seg, <<"}">>)

\* A key has the shape of a template when both have the same number of
\* segments, a non-empty segment stands where the template has a
\* placeholder, and the literal segments are equal.
ShapeMatches(resourceURI, pathTemplate) ==
    LET t == SplitSegments(pathTemplate)
        k == SplitSegments(KeyPath(resourceURI))
    IN  /\ Len(t) = Len(k)
        /\ \A i \in 1..Len(t) :
              IF IsPlaceholderSegment(t[i]) THEN Len(k[i]) > 0 ELSE k[i] = t[i]

EmittedKeys(path, params) ==
    {k \in DOMAIN params \ (PathKeys(path, params) \cup {ResourceURIKey}) :
        params[k].isString /\ Len(params[k].s) > 0}

\* The template with the string path arguments substituted.
SubstitutedPath(path, params) ==
    Fill(path, [k \in {j \in PathKeys(path, params) : params[j].isString} |-> params[k].s])

Occurrences(s, c) == Cardinality({i \in 1..Len(s) : s[i] = c})

\* C12: the URL of BuildAPIURLWithParams ends with the substituted path and
\* holds no '?' when no query argument carries a non-empty string;
\* otherwise it is the substituted path, one '?', and the '&'-joined
\* key=percent-encoded(value) parts of exactly those arguments, each once,
\* in some order.
C12_QuerySuffix ==
    fn = "BuildAPIURLWithParams" =>
        LET path    == input.endpoint.Path
            params  == input.params
            emitted == EmittedKeys(path, params)
            head    == TrimRight(BaseURL(registryURL, model), "/")
                           \o SubstitutedPath(path, params)
        IN  IF emitted = {}
            THEN output = head /\ ~Contains(output, "?")
            ELSE /\ Occurrences(output, "?") = 1
                 /\ \E order \in Perms(emitted) :
                       output = head \o <<"?">> \o
                                Join([i \in 1..Len(order) |->
                                         order[i] \o <<"=">> \o QueryEscape(params[order[i]].s)],
                                     <<"&">>)

\* Two query arguments with values, a third with an empty one, and a URL
\* whose query string names the two.
C12_Witness ==
    /\ fn = "BuildAPIURLWithParams"
    /\ input.endpoint.Path = <<"/", "a">>
    /\ DOMAIN input.params = {ArgN, ArgQ, ArgR}
    /\ input.params[ArgN] = StrVal(<<"x">>)
    /\ input.params[ArgQ] = StrVal(<<"x", "/", "y">>)
    /\ input.params[ArgR] = StrVal(<<>>)
    /\ HasSuffix(output, <<"/", "a", "?", "n", "=", "x", "&", "q", "=", "x", "%", "2", "F", "y">>)

\* C13 (as claimed): the URL BuildAPIURLWithParams returned is the only
\* URL it can return for the same endpoint and the same argument map.
C13_DeterministicURL ==
    fn = "BuildAPIURLWithParams" =>
        BuildAPIURLWithParamsResults(registryURL, model, input.endpoint, input.params)
            = {output}

\* The description declares a base path.
DeclaresBasePath == ~model.nil /\ Len(model.basePath) > 0

\* The endpoint path with the values extracted from the key substituted.
ExtractedPath == Fill(input.endpoint.Path,
                      extractPathParameters(input.resourceURI, input.endpoint.Path))

\* C14 (as claimed): the URL of BuildAPIURL is the registry URL with
\* trailing '/' trimmed, then - when a base path is declared - '/' and the
\* base path with leading '/' trimmed, then the endpoint path with the
\* extracted values substituted.
C14_BuildAPIURLComposition ==
    fn = "BuildAPIURL" =>
        output = TrimRight(registryURL, "/")
                     \o (IF DeclaresBasePath
                         THEN <<"/">> \o TrimLeft(model.basePath, "/")
                         ELSE <<>>)
                     \o ExtractedPath

\* C14 (amended): as above, with the trailing '/' of the registry URL
\* followed by the base path trimmed as well before the endpoint path is
\* appended.
C14_BuildAPIURLCompositionTrimmed ==
    fn = "BuildAPIURL" =>
        output = (IF DeclaresBasePath
                  THEN TrimRight(TrimRight(registryURL, "/") \o <<"/">>
                                     \o TrimLeft(model.basePath, "/"), "/")
                  ELSE TrimRight(registryURL, "/"))
                     \o ExtractedPath

\* A base path the endpoint path begins with, and a URL that holds it
\* twice.
C14_Witness ==
    /\ fn = "BuildAPIURL"
    /\ DeclaresBasePath /\ model.basePath = <<"/", "a">>
    /\ input.endpoint.Path = <<"/", "a", "/", "{", "n", "}">>
    /\ input.resourceURI = Scheme \o <<"a", "/", "x">>
    /\ output = registryURL \o <<"/", "a", "/", "a", "/", "x">>

\* What BuildAPIURLWithParams or BuildAPIURL puts after the base address,
\* up to the query string.
BuiltPath ==
    IF fn = "BuildAPIURL" THEN ExtractedPath
    ELSE SubstitutedPath(input.endpoint.Path, input.params)

\* C15: the URL of either builder is the registry URL without trailing
\* '/', then - when a base path is declared - one '/' and the base path
\* without leading or trailing '/', then one '/' and the endpoint path
\* without its leading '/'; only a query string follows.
C15_OneSeparatorPerJunction ==
    fn \in {"BuildAPIURL", "BuildAPIURLWithParams"} =>
        LET reg  == Trim(registryURL, "/")
            base == IF DeclaresBasePath /\ Len(Trim(model.basePath, "/")) > 0
                    THEN <<"/">> \o Trim(model.basePath, "/")
                    ELSE <<>>
            head == reg \o base \o <<"/">> \o TrimPrefix(BuiltPath, <<"/">>)
        IN  /\ HasPrefix(output, head)
            /\ Len(output) > Len(head) => output[Len(head) + 1] = "?"

\* A base path declared with a trailing '/', and a URL with one '/'
\* between it and the endpoint path.
C15_Witness ==
    /\ fn = "BuildAPIURLWithParams"
    /\ DeclaresBasePath /\ model.basePath = <<"v", "/">>
    /\ input.endpoint.Path = <<"/", "a">>
    /\ output = registryURL \o <<"/", "v", "/", "a">>

(***************************************************************************)
(* Claims about the outbound request and the handler's result (Spec).      *)
(***************************************************************************)
\* C16: every request a tool call sends has method GET, the Accept and
\* User-Agent headers with their fixed values, and an Authorization header
\* exactly when the client has a token, its value "Bearer " followed by the
\* token as configured.
C16_RequestHeaders ==
    (call.made /\ call.resolved) =>
        \A i \in 1..Len(call.requests) :
            LET req == call.requests[i]
            IN  /\ req.method = "GET"
                /\ {"Accept", "User-Agent"} \subseteq DOMAIN req.headers
                /\ req.headers["Accept"] = AcceptJSON
                /\ req.headers["User-Agent"] = UserAgent
                /\ ("Authorization" \in DOMAIN req.headers) <=> (Len(oauthToken) > 0)
                /\ "Authorization" \in DOMAIN req.headers =>
                       req.headers["Authorization"] = BearerPrefix \o oauthToken

\* A request sent by a client that has a token, with the token in its
\* Authorization header.
C16_Witness ==
    /\ call.made /\ call.resolved /\ Len(call.requests) > 0
    /\ oauthToken = <<"k">>
    /\ "Authorization" \in DOMAIN call.requests[1].headers
    /\ call.requests[1].headers["Authorization"] = BearerPrefix \o <<"k">>

\* The registry's answer is a transport failure or an error status.
UpstreamFailure(reply) == reply = Failed \/ reply.code >= 400

\* C17: a tool call sends at most one request; a call that fails before
\* dispatch sends none; a call whose request meets a transport failure or
\* an error status has sent exactly one and returns the failure.
C17_AtMostOneRequest ==
    call.made =>
        /\ Len(call.requests) <= 1
        /\ ~call.resolved => call.requests = <<>>
        /\ (call.resolved /\ UpstreamFailure(call.reply)) =>
              /\ Len(call.requests) = 1
              /\ call.result.kind = "API call failed"

\* A call whose one request met a transport failure.
C17_Witness ==
    /\ call.made /\ call.resolved /\ call.reply = Failed
    /\ Len(call.requests) = 1
    /\ call.result.kind = "API call failed"

\* C18 (as claimed): MakeAPICallWithParams returns the body and no error
\* for a 2xx status, an error with the status code and the body for every
\* other status, and another error without a status code for a transport
\* failure.
C18_StatusDecidesResult ==
    (call.made /\ call.resolved) =>
        IF call.reply = Failed
        THEN /\ call.api.err # ""
             /\ call.api.err # "API request failed with status"
             /\ "code" \notin DOMAIN call.api
        ELSE IF call.reply.code \in 200..299
        THEN call.api.err = "" /\ call.api.data = call.reply.body
        ELSE /\ call.api.err = "API request failed with status"
             /\ call.api.code = call.reply.code
             /\ call.api.body = call.reply.body

\* A call that fails: before dispatch, in the transport, or upstream.
FailingCall == call.made /\ (~call.resolved \/ UpstreamFailure(call.reply))

\* C19: a failing call returns a result - never a Go error - that names
\* the failure and, for an upstream failure, carries the client's error
\* with the status code and body when there is one; the server goes on
\* serving.
C19_FailuresAreResults ==
    FailingCall =>
        /\ ~call.result.nil
        /\ call.result.goErr = "nil"
        /\ call.result.kind \in {"Invalid tool name", "Endpoint not found", "API call failed"}
        /\ call.resolved =>
              /\ call.result.text.err # ""
              /\ call.reply # Failed =>
                    /\ call.result.text.code = call.reply.code
                    /\ call.result.text.body = call.reply.body
        /\ spc = "serving" /\ ~panicked

\* A call answered with status 404 and returned as a result.
C19_Witness ==
    /\ call.made /\ call.resolved /\ call.reply = Reply(404, "page")
    /\ call.result.kind = "API call failed" /\ call.result.goErr = "nil"

(***************************************************************************)
(* Claims about the tool descriptors (SpecTools).                          *)
(***************************************************************************)
\* The GET operation a tool was generated from.
OperationOf(tool) ==
    (CHOOSE i \in 1..Len(model.paths.items) : model.paths.items[i].path = tool.Path)
\* The names of the query parameters an operation declares.
DeclaredQueryNames(operation) ==
    {operation.Parameters[i].Name :
        i \in {j \in 1..Len(operation.Parameters) : operation.Parameters[j].In = "query"}}

RequiredOf(tool) == {tool.Required[i] : i \in 1..Len(tool.Required)}

RECURSIVE DerivedChars(_)
DerivedChars(s) ==
    IF Len(s) = 0 THEN <<>>
    ELSE (CASE s[1] = "/"         -> <<"_">>
            [] s[1] \in Braces    -> <<>>
            [] OTHER              -> <<s[1]>>) \o DerivedChars(Tail(s))

DerivedName(path) ==
    LET d == DerivedChars(Trim(path, "/"))
    IN  IF Len(d) = 0 THEN <<"r", "o", "o", "t">> ELSE d

\* C21: a tool's name is quay_ followed by the operation identifier when
\* there is one, otherwise by the name derived from the path template
\* (root when nothing is left); the handler's path-based identifier of
\* every catalog entry is that derived name too.
C21_ToolNames ==
    /\ \A t \in 1..Len(tools) :
          LET operation == model.paths.items[OperationOf(tools[t])].get
          IN  tools[t].Name =
                  <<"q", "u", "a", "y", "_">>
                      \o (IF Len(operation.OperationId) > 0 THEN operation.OperationId
                          ELSE DerivedName(tools[t].Path))
    /\ \A u \in DOMAIN endpoints :
          pathIdentifier(endpoints[u].Path) = DerivedName(endpoints[u].Path)

\* Tools named from the root path, from a template with a placeholder and
\* from an operation identifier, with the root path in the catalog.
C21_Witness ==
    /\ \E t \in 1..Len(tools) :
          tools[t].Path = <<"/">> /\ tools[t].Name = QuayPrefix \o RootName
    /\ \E t \in 1..Len(tools) :
          /\ tools[t].Path = <<"/", "a", "/", "{", "n", "}">>
          /\ tools[t].Name = QuayPrefix \o <<"a", "_", "n">>
    /\ \E u \in DOMAIN endpoints : endpoints[u].Path = <<"/">>

\* C22 (as claimed): once DiscoverEndpoints and generateTools have both run
\* on a loaded description, there is exactly one tool for each path of the
\* catalog and no tool for any other path.
C22_ToolsProjectCatalog ==
    (Noted("DiscoverEndpoints") /\ Noted("generateTools")) =>
        /\ {tools[t].Path : t \in 1..Len(tools)} = CatalogPaths
        /\ \A p \in CatalogPaths :
              Cardinality({t \in 1..Len(tools) : tools[t].Path = p}) = 1

\* C23 (as claimed): no two tools that generateTools returned, and Start
\* registered, have the same name.
C23_ToolNamesDistinct ==
    \A i, j \in 1..Len(tools) : tools[i].Name = tools[j].Name => i = j

\* C24 (as claimed): after DiscoverEndpoints every catalog entry is stored
\* under quay:// followed by its path without the leading '/', and no
\* endpoint of the description is lost to another one with the same key.
C24_ResourceKeysUnique ==
    Noted("DiscoverEndpoints") =>
        /\ \A u \in DOMAIN endpoints :
              u = <<"q", "u", "a", "y", ":", "/", "/">>
                      \o (IF endpoints[u].Path[1] = "/" THEN Tail(endpoints[u].Path)
                          ELSE endpoints[u].Path)
        /\ \A item \in LoadedItems : HasAllowedGet(item) => item.path \in CatalogPaths


(***************************************************************************)
(* Claims about concurrent invocations (SpecServing).                      *)
(***************************************************************************)
\* The invocation has resolved an endpoint.
Resolved(th) == th.uri # <<>>

\* What an invocation holds at its position when it is the only one running:
\* an endpoint its tool name resolves to, a URL built from that endpoint and
\* its own arguments, the request made from that URL, and the result made
\* from the reply it received.
AsWhenAlone(th) ==
    LET identifier == TrimPrefix(th.name, QuayPrefix)
        found      == FoundEndpoints(endpoints, identifier)
    IN  /\ Resolved(th) <=> th.pc \in {"call", "send", "wait"}
                            \/ (th.pc = "returned" /\ HasPrefix(th.name, QuayPrefix)
                                                   /\ found # {})
        /\ Resolved(th) => th.uri \in found
        /\ (Resolved(th) /\ th.pc \in {"send", "wait", "returned"}) =>
               th.url \in BuildAPIURLWithParamsResults(registryURL, model,
                                                       endpoints[th.uri], th.arguments)
        /\ (Resolved(th) /\ th.pc \in {"wait", "returned"}) =>
               th.request = NewRequest(endpoints[th.uri].Method, th.url, oauthToken)
        /\ th.pc = "returned" =>
               th.result = IF ~HasPrefix(th.name, QuayPrefix)
                           THEN ToolResultError("Invalid tool name", th.name)
                           ELSE IF found = {}
                           THEN ToolResultError("Endpoint not found", th.name)
                           ELSE HandlerResult(APICallResult(th.reply))

\* C25: while invocations run, the catalog, the model, the tools and the
\* client's configuration stay what startup made them, and every invocation,
\* whatever the others do in between, holds the URL, the request and the
\* result it holds when it runs alone.
C25_InvocationsDoNotInterfere ==
    /\ model = BuildV2Model(registry)
    /\ endpoints = DiscoverEndpoints(model, EmptyMap).endpoints
    /\ tools = generateTools(model).tools
    /\ registryURL \in {TrimRight(raw, "/") : raw \in RawURLs}
    /\ \A t \in DOMAIN threads : AsWhenAlone(threads[t])

\* Two invocations in flight with different URLs: the first has built its
\* URL and not sent it, the second, started later, already waits for the
\* registry.
C25_Witness ==
    /\ Len(threads) = 2
    /\ threads[1].pc = "send" /\ threads[2].pc = "wait"
    /\ threads[1].url # threads[2].url
    /\ threads[1].arguments # threads[2].arguments


(***************************************************************************)
(* Claims about the log of a tool call (Spec).                             *)
(***************************************************************************)
\* The call reached MakeAPICallWithParams on a client that has a token.
LoggedWithToken == call.made /\ call.resolved /\ oauthToken # NoToken

\* The strings the call's log lines print.
LoggedValues == UNION {e.values : e \in call.log}

AuthorizationRedacted ==
    /\ LogLine("Authorization", {Redacted}) \in call.log
    /\ \A e \in call.log : e.line = "Authorization" => e.values = {Redacted}

GetItems == SelectSeq(model.paths.items, LAMBDA item : ~item.get.nil)

\* The path has a placeholder: a '{' and a '}' after it.
HasPlaceholder(path) ==
    \E i, j \in 1..Len(path) : i < j /\ path[i] = "{" /\ path[j] = "}"

\* The URI and the name the claim gives the entry of one GET path item.
ClaimedEntry(item) ==
    [URI  |-> <<"q", "u", "a", "y", ":", "/", "/">>
                  \o (IF item.path[1] = "/" THEN Tail(item.path) ELSE item.path),
     Name |-> IF item.get.Summary # <<>> THEN item.get.Summary
              ELSE IF item.get.Description # <<>> THEN item.get.Description
              ELSE <<"G", "E", "T", " ">> \o item.path]

ClaimedEntries(items) == [i \in 1..Len(items) |-> ClaimedEntry(items[i])]

URIsAndNames(entries) ==
    [i \in 1..Len(entries) |-> [URI |-> entries[i].URI, Name |-> entries[i].Name]]

\* C27: the plain resources are, one for one, the GET paths without a
\* placeholder and the templates the GET paths with one, each with the URI
\* quay:// + the path without its leading '/' and the name summary, else
\* description, else "GET <path>"; paths without a GET add nothing, so the
\* two lists together have as many entries as there are GET paths.
C27_ResourcesAndTemplates ==
    spc = "resources: serving" =>
        /\ URIsAndNames(tools.resources)
               = ClaimedEntries(SelectSeq(GetItems, LAMBDA item : ~HasPlaceholder(item.path)))
        /\ URIsAndNames(tools.templates)
               = ClaimedEntries(SelectSeq(GetItems, LAMBDA item : HasPlaceholder(item.path)))
        /\ Len(tools.resources) + Len(tools.templates) = Len(GetItems)

\* A description with a path that has no GET, and a parameterized GET path
\* that has a description and no summary: one template, named by the
\* description, and no plain resource.
C27_Witness ==
    /\ spc = "resources: serving"
    /\ Len(model.paths.items) = 2
    /\ model.paths.items[1].get.nil /\ ~model.paths.items[1].post.nil
    /\ model.paths.items[2].path = <<"/", "a", "/", "{", "n", "}">>
    /\ tools.resources = <<>>
    /\ Len(tools.templates) = 1
    /\ tools.templates[1].URI = <<"q", "u", "a", "y", ":", "/", "/", "a", "/", "{", "n", "}">>
    /\ tools.templates[1].Name = <<"d">>


\* The values a read puts in place of the placeholders of a catalog path.
ReadValues(path) == [PlaceholderSet(path) -> {<<"x">>, <<"x", "/", "y">>}]

\* C30 (as claimed): a read of a URI that instantiates the key of a
\* parameterized endpoint of the catalog resolves to that endpoint and
\* requests its path with the placeholders replaced by the values of the
\* URI.
C30_ConcreteURIResolves ==
    (spc = "resources: serving" /\ call.made) =>
        \A u \in DOMAIN endpoints :
            \A a \in ReadValues(endpoints[u].Path) :
                (HasPlaceholder(endpoints[u].Path)
                    /\ call.uri = Instantiate(endpoints[u].Path, a)) =>
                        /\ call.resolved
                        /\ call.path = endpoints[u].Path
                        /\ call.requests[1].url
                               = BaseURL(registryURL, model) \o Fill(endpoints[u].Path, a)


(***************************************************************************)
(* Claims about the resolution of a tool name (Spec).                      *)
(***************************************************************************)
\* C28 (as claimed): a call with the name of a generated tool resolves, and
\* resolves to the path template that tool was generated from, whichever
\* entry the lookups over the catalog map visit first.
C28_ToolResolvesToItsEndpoint ==
    (spc = "serving" /\ call.made) =>
        \A i \in 1..Len(tools) :
            tools[i].Name = call.name =>
                call.resolved /\ call.path = tools[i].Path


(***************************************************************************)
(* Claims about what an invocation can request (SpecURL).                  *)
(***************************************************************************)
\* The URL up to its query part.
BeforeQuery(url) ==
    IF Contains(url, "?") THEN SubSeq(url, 1, Index(url, "?", 1) - 1) ELSE url

\* C29 (as claimed): the URL BuildAPIURLWithParams builds has, before its
\* query part, exactly the segments of the base URL and the endpoint's
\* template, one per placeholder; it has at most one '?', and no more query
\* parameters than arguments were supplied.
C29_StaysOnTemplate ==
    fn = "BuildAPIURLWithParams" =>
        LET path   == input.endpoint.Path
            params == input.params
            own    == TrimRight(BaseURL(registryURL, model), "/") \o path
        IN  /\ Occurrences(BeforeQuery(output), "/") = Occurrences(own, "/")
            /\ Occurrences(output, "?") <= 1
            /\ Occurrences(output, "=") <= Cardinality(DOMAIN params \ {ResourceURIKey})

====
